---- MODULE Spec2Model ----
(***************************************************************************)
(* Model of typeclasses/scripts/gametime.py: the GameTime script, the      *)
(* module globals SERVER_STARTTIME / SERVER_RUNTIME, the backup file, the  *)
(* forced save, the duration formatter and the conversions between real    *)
(* time and game time.                                                     *)
(*                                                                         *)
(* Numbers.  time() and every runtime value is a float number of seconds.  *)
(* The model keeps them as fixed-point integers counting ten-thousandths   *)
(* of a second (Sec(60) is 60 s); the clock moves in steps of a quarter    *)
(* second or of one script interval.  ExactFile states that every number   *)
(* the program reads back from the file is exact in this representation.   *)
(*                                                                         *)
(* Text.  The backup file is a sequence of one-character strings, so that  *)
(* str(), float(), readline(), strip() and the seek(0)/write() overwrite   *)
(* of save() are computed character by character.                          *)
(*                                                                         *)
(* Language.  The module is Python 2 code: "/" on two ints is integer      *)
(* division (the docstring of _format says "integer-divided") and None     *)
(* orders below every number.                                              *)
(***************************************************************************)
EXTENDS Integers, Sequences, FiniteSets, TLC

---------------------------------------------------------------------------
(* Bounds of the model *)

\* at most this many clock advances in one behaviour
MaxAdvances == 2

\* at most this many calls of save() in one process
MaxSaves == 2

\* largest whole-second count (besides the spec's examples) given to _format
MaxFormatSeconds == 12

\* largest count given for each time unit of a conversion
MaxUnits == 1

\* at most this many intervals elapse in the process followed to the
\* re-check threshold
MaxLiveTicks == 8

---------------------------------------------------------------------------
(* Program constants *)

\* self.interval = 60
Interval == 60

\* if SERVER_RUNTIME < 1000
RecheckThreshold == 1000

\* game-time units in seconds, lines 31-36
MIN == 60
HOUR == MIN * 60
DAY == HOUR * 24
WEEK == DAY * 7
MONTH == WEEK * 4
YEAR == MONTH * 12

\* Python's None: what attributes.get returns for a missing attribute, and
\* the "no value" of the helpers below.  Below every number, as in Python 2.
None == -1

\* n seconds in the fixed-point representation
Sec(n) == n * 10000

---------------------------------------------------------------------------
(* Text helpers *)

Digit == <<"0", "1", "2", "3", "4", "5", "6", "7", "8", "9">>

\* str.isdigit() on one character
IsDigit(c) == \E i \in 1..10 : Digit[i] = c

DigitVal(c) == (CHOOSE i \in 1..10 : Digit[i] = c) - 1

\* characters str.strip() and float() discard at both ends
IsSpace(c) == c \in {"\n", " "}

\* a quarter of a second
Quarter == Sec(1) \div 4

RECURSIVE IntStr(_)
\* decimal digits of a non-negative integer
IntStr(n) == IF n < 10 THEN <<Digit[n + 1]>>
             ELSE IntStr(n \div 10) \o <<Digit[(n % 10) + 1]>>

RECURSIVE FracStr(_, _)
\* the k-digit fraction f without its trailing zeros, at least one digit
FracStr(f, k) == IF k > 1 /\ f % 10 = 0 THEN FracStr(f \div 10, k - 1)
                 ELSE IF k = 1 THEN <<Digit[f + 1]>>
                 ELSE FracStr(f \div 10, k - 1) \o <<Digit[(f % 10) + 1]>>

\* str(x) of a float x >= 0: integer part, ".", and the fraction without
\* trailing zeros but with at least one digit ("60.0", "9.25", "9.5")
Str(v) == IntStr(v \div Sec(1)) \o <<".">> \o FracStr(v % Sec(1), 4)

RECURSIVE LStrip(_)
LStrip(s) == IF s # <<>> /\ IsSpace(Head(s)) THEN LStrip(Tail(s)) ELSE s

RECURSIVE RStrip(_)
RStrip(s) == IF s # <<>> /\ IsSpace(s[Len(s)])
             THEN RStrip(SubSeq(s, 1, Len(s) - 1)) ELSE s

\* str.strip()
Strip(s) == RStrip(LStrip(s))

RECURSIVE DigitsVal(_)
\* value of a string of digits (0 for the empty string)
DigitsVal(s) == IF s = <<>> THEN 0
                ELSE DigitsVal(SubSeq(s, 1, Len(s) - 1)) * 10 + DigitVal(s[Len(s)])

\* position of the first "." of s, or Len(s) + 1
DotPos(s) == IF \E i \in 1..Len(s) : s[i] = "."
             THEN CHOOSE i \in 1..Len(s) :
                      s[i] = "." /\ \A j \in 1..(i - 1) : s[j] # "."
             ELSE Len(s) + 1

\* float(s): surrounding whitespace is dropped; digits with at most one "."
\* and at least one digit parse, anything else raises ValueError (None).
\* Signs, exponents, "inf" and "nan" are outside the alphabet of the model.
Float(s) ==
    LET t == Strip(s)
        d == DotPos(t)
        ip == SubSeq(t, 1, d - 1)
        fp == SubSeq(t, d + 1, Len(t))
        fp4 == SubSeq(fp \o <<"0", "0", "0", "0">>, 1, 4)
    IN  IF /\ \A i \in 1..Len(ip) : IsDigit(ip[i])
           /\ \A i \in 1..Len(fp) : IsDigit(fp[i])
           /\ Len(ip) + Len(fp) >= 1
        THEN DigitsVal(ip) * Sec(1) + DigitsVal(fp4)
        ELSE None

\* the fraction of a parsed string fits the fixed-point representation
Exact(s) ==
    LET t == Strip(s)
        fp == SubSeq(t, DotPos(t) + 1, Len(t))
    IN  Float(s) # None => \A i \in 5..Len(fp) : fp[i] = "0"

\* position of the first newline of s, or 0
FirstNL(s) == IF \E i \in 1..Len(s) : s[i] = "\n"
              THEN CHOOSE i \in 1..Len(s) :
                       s[i] = "\n" /\ \A j \in 1..(i - 1) : s[j] # "\n"
              ELSE 0

\* logfile.readline(): the first line with its newline, "" at end of file
ReadLine(s) == IF FirstNL(s) = 0 THEN s ELSE SubSeq(s, 1, FirstNL(s))

RECURSIVE FileLines(_)
\* "for line in logfile": the lines of the file, each with its newline
FileLines(s) == IF s = <<>> THEN <<>>
                ELSE <<ReadLine(s)>>
                     \o FileLines(SubSeq(s, Len(ReadLine(s)) + 1, Len(s)))

\* logfile.seek(0); logfile.write(text): overwrite in place, no truncation
Overwrite(data, text) == text \o SubSeq(data, Len(text) + 1, Len(data))

---------------------------------------------------------------------------
(* State *)

VARIABLES
    now,               \* time(): the wall clock
    SERVER_STARTTIME,  \* module global, set when the module is loaded
    SERVER_RUNTIME,    \* module global, 0.0 when the module is loaded
    run_time,          \* attribute "run_time" of the script, None if absent
    up_time,           \* attribute "up_time" of the script, None if absent
    logfile,           \* BACKUP_FILE: [exists, data]
    phase,             \* "none": no script yet; "created": at_script_creation
                       \* has run; "loaded": a new process has loaded the
                       \* module, at_start not yet called; "running"
    due,               \* the script's 60 s timer has fired, at_repeat pending
    store,             \* attribute store: "ok", "writefail" or "readfail"
    raised,            \* the last handler let an exception escape to its caller
    stage,             \* 1: the last operation was a save() of a running
                       \* accumulator; 2: and then a restart; 3: and then
                       \* at_start; 0 otherwise
    saves,             \* calls of save() in this process
    rtSaved,           \* runtime() right after that save(), None at stage 0
    base,              \* SERVER_RUNTIME recovered by the last at_start
    nTicks,            \* ticks since that at_start, while the run is regular
    regular,           \* since that at_start (at uptime 0): only 60 s advances,
                       \* each followed by one tick
    fmtSeconds,        \* argument "seconds" of the last _format call
    fmtDivisors,       \* its divisors
    fmtResult,         \* its result
    cvFactor,          \* TIMEFACTOR (settings.TIME_FACTOR)
    cvArgs,            \* arguments <<secs, mins, hrs, days, weeks, months,
                       \* yrs>> of a conversion
    cvGame,            \* what realtime_to_gametime returned for them, None
                       \* before the call
    cvReal             \* what gametime_to_realtime(secs=cvGame) returned

progVars == <<now, SERVER_STARTTIME, SERVER_RUNTIME, run_time, up_time,
              logfile, phase, due, store, raised>>
histVars == <<stage, saves, rtSaved, base, nTicks, regular>>
fmtVars  == <<fmtSeconds, fmtDivisors, fmtResult>>
cvVars   == <<cvFactor, cvArgs, cvGame, cvReal>>
vars     == <<progVars, histVars, fmtVars, cvVars>>

\* the backup file does not exist
NoFile == [exists |-> FALSE, data |-> <<>>]

File(text) == [exists |-> TRUE, data |-> text]

\* backup files found when the game is first started: none, an empty one,
\* one value with and without newline, below and above the re-check
\* threshold, a blank first line, two lines, a line that does not parse
FileInputs ==
    { NoFile,
      File(<<>>),
      File(<<"9", ".", "2", "5">>),
      File(<<"5", "0", "0", ".", "0">>),
      File(<<"1", "0", "0", "0", ".", "2", "5", "\n">>),
      File(<<"\n">>),
      File(<<"5", ".", "5", "\n", "9", ".", "5", "\n">>),
      File(<<"1", "2", "x", "\n">>) }

\* clock steps: a quarter of a second, or one script interval
AdvanceSteps == {Quarter, Sec(Interval)}

\* number of clock advances made so far (every step is smaller than the
\* number of quarter seconds in an interval)
Advances == (now \div Sec(Interval)) + ((now % Sec(Interval)) \div Quarter)

---------------------------------------------------------------------------
(* Access functions *)

\* runtime(): SERVER_RUNTIME + (time() - SERVER_STARTTIME)
runtime == SERVER_RUNTIME + (now - SERVER_STARTTIME)

\* uptime() counting on from the up_time attribute when there is one
uptimeFromAttribute ==
    IF up_time # None THEN up_time ELSE now - SERVER_STARTTIME

\* uptime(): time() - SERVER_STARTTIME
uptime == now - SERVER_STARTTIME

---------------------------------------------------------------------------
(* Recovery *)

\* lines 104-107 (and 64-67): open the file, keep the lines whose first
\* character is a digit, strip them, float() the last one.  A missing file
\* (IOError), no such line (IndexError) or a line that does not parse
\* (ValueError) raise into the except clause: None.
BackupCandidate(f) ==
    IF ~f.exists THEN None
    ELSE LET lines == SelectSeq(FileLines(f.data), LAMBDA l : IsDigit(l[1]))
         IN  IF lines = <<>> THEN None
             ELSE Float(Strip(lines[Len(lines)]))

\* at_start, lines 100-112: SERVER_RUNTIME = attributes.get("run_time"),
\* raised to the file's value when that is larger.  None < x holds for every
\* number x in Python 2, so an absent attribute yields the file's value.
StartRuntime(run, f) ==
    LET last_time == BackupCandidate(f)
    IN  IF last_time # None /\ run < last_time THEN last_time ELSE run

\* at_script_creation reading the first line that starts with a digit in
\* place of the last
CreationRunTimeFirstLine(f) ==
    LET lines == IF f.exists
                 THEN SelectSeq(FileLines(f.data), LAMBDA l : IsDigit(l[1]))
                 ELSE <<>>
        last_time == IF lines = <<>> THEN None ELSE Float(Strip(lines[1]))
    IN  IF last_time # None /\ last_time # 0 THEN last_time ELSE 0

\* at_script_creation, lines 61-72: run_time is 0.0, or the file's value
\* when there is one and it is not zero
CreationRunTime(f) ==
    LET last_time == BackupCandidate(f)
    IN  IF last_time # None /\ last_time # 0 THEN last_time ELSE 0

---------------------------------------------------------------------------
(* The periodic tick and the forced save, as functions of the state *)

\* at_repeat with line 78 writing SERVER_RUNTIME alone, the uptime forgotten
RepeatResultNoUptime(sr, run, up, f, t, start, st) ==
    IF sr = None \/ st = "writefail"
    THEN [run |-> run, up |-> up, sr |-> sr, raised |-> TRUE]
    ELSE [run |-> sr,
          up |-> t - start,
          sr |-> IF sr < Sec(RecheckThreshold) /\ st # "readfail"
                 THEN StartRuntime(sr, f) ELSE sr,
          raised |-> FALSE]

\* at_repeat without lines 85-90: at_start is never run again
RepeatResultNoRecheck(sr, run, up, f, t, start, st) ==
    IF sr = None \/ st = "writefail"
    THEN [run |-> run, up |-> up, sr |-> sr, raised |-> TRUE]
    ELSE [run |-> sr + (t - start),
          up |-> t - start,
          sr |-> sr,
          raised |-> FALSE]

\* at_repeat re-running at_start on every tick, whatever SERVER_RUNTIME is
RepeatResultAlwaysRecheck(sr, run, up, f, t, start, st) ==
    IF sr = None \/ st = "writefail"
    THEN [run |-> run, up |-> up, sr |-> sr, raised |-> TRUE]
    ELSE LET r == sr + (t - start)
         IN  [run |-> r,
              up |-> t - start,
              sr |-> IF st # "readfail" THEN StartRuntime(r, f) ELSE sr,
              raised |-> FALSE]

\* at_repeat, lines 78-90.  runtime() raises TypeError when SERVER_RUNTIME is
\* None and attributes.add raises when the store refuses writes: both are
\* outside the try block and escape.  Otherwise both attributes are written,
\* and below the threshold at_start runs again, reading back the run_time
\* just written; an exception of that at_start is swallowed.
RepeatResult(sr, run, up, f, t, start, st) ==
    IF sr = None \/ st = "writefail"
    THEN [run |-> run, up |-> up, sr |-> sr, raised |-> TRUE]
    ELSE LET r == sr + (t - start)
         IN  [run |-> r,
              up |-> t - start,
              sr |-> IF sr < Sec(RecheckThreshold) /\ st # "readfail"
                     THEN StartRuntime(r, f) ELSE sr,
              raised |-> FALSE]

\* save, lines 123-132, given the runtime() rt it computes: open(..., 'r+')
\* raises for a missing file; an empty file, or a first line that parses to
\* less than rt, is overwritten from offset 0; a first line that does not
\* parse raises ValueError.  Every exception is swallowed.
SaveFile(f, rt) ==
    IF ~f.exists \/ rt = None THEN f
    ELSE LET data == ReadLine(f.data)
         IN  IF data = <<>> \/ (Float(data) # None /\ Float(data) < rt)
             THEN File(Overwrite(f.data, Str(rt)))
             ELSE f

---------------------------------------------------------------------------
(* Duration formatter *)

RECURSIVE FormatFromKeepsSeconds(_, _)
\* the loop of _format without "seconds %= divisor"
FormatFromKeepsSeconds(seconds, divisors) ==
    IF divisors = <<>> THEN <<seconds>>
    ELSE <<seconds \div Head(divisors)>>
         \o FormatFromKeepsSeconds(seconds, Tail(divisors))

RECURSIVE FormatFrom(_, _)
\* the loop of _format, lines 151-154: one quotient per divisor ("/" on two
\* ints), the remainder carried on, and the last remainder at the end
FormatFrom(seconds, divisors) ==
    IF divisors = <<>> THEN <<seconds>>
    ELSE <<seconds \div Head(divisors)>>
         \o FormatFrom(seconds % Head(divisors), Tail(divisors))

\* _format(seconds, *divisors), lines 149-155; seconds = int(seconds) drops
\* the fraction of the fixed-point argument
Format(seconds, divisors) == FormatFrom(seconds \div Sec(1), divisors)

\* divisor lists: none, one unit, the spec's example, the real-time units of
\* runtime(format=True), units that do not divide each other, a repeated unit
FormatDivisors ==
    { <<>>, <<60>>, <<3600, 60>>, <<7, 3>>, <<2, 2>>, <<1>>,
      <<31536000, 2628000, 604800, 86400, 3600, 60>> }

\* seconds counts: every whole second up to the bound, the spec's example
\* and one above a day, each with and without a fraction
FormatSeconds ==
    { Sec(n) + f : n \in (0..MaxFormatSeconds) \cup {3725, 93784},
                   f \in {0, 3 * Quarter} }

---------------------------------------------------------------------------
(* Time conversions.  Their numbers are counted in halves, so that the     *)
(* time factors 0.5, 1.5 and 2.5 and every product and quotient taken here *)
(* are exact, as they are in binary floating point.                        *)

\* the whole number n
Halves(n) == 2 * n

\* a * b and a / b on numbers counted in halves
FMul(a, b) == (a * b) \div Halves(1)
FDiv(a, b) == (a * Halves(1)) \div b

\* realtime_to_gametime with the game-time units of lines 31-36 in place of
\* the real-time seconds of lines 212-213
realtime_to_gametimeGameUnits(factor, secs, mins, hrs, days, weeks, months, yrs) ==
    FMul(factor, secs + mins * MIN + hrs * HOUR + days * DAY + weeks * WEEK
                 + months * MONTH + yrs * YEAR)

\* realtime_to_gametime, lines 212-216, format off; factor is TIMEFACTOR
realtime_to_gametime(factor, secs, mins, hrs, days, weeks, months, yrs) ==
    FMul(factor, secs + mins * 60 + hrs * 3600 + days * 86400 + weeks * 604800
                 + months * 2628000 + yrs * 31536000)

\* gametime_to_realtime, lines 194-198, format off
gametime_to_realtime(factor, secs, mins, hrs, days, weeks, months, yrs) ==
    FDiv(secs + mins * MIN + hrs * HOUR + days * DAY + weeks * WEEK
         + months * MONTH + yrs * YEAR, factor)

\* settings.TIME_FACTOR: 0.5, 1.0, 1.5, 2.0 (the default of the framework)
\* and 2.5
TimeFactors == {1, 2, 3, 4, 5}

\* arguments <<secs, mins, hrs, days, weeks, months, yrs>>: whole numbers
ConvertArgs == [1..7 -> {Halves(n) : n \in 0..MaxUnits}]

---------------------------------------------------------------------------
(* Initial state: the module has been loaded for the first time (lines      *)
(* 41-42), init_gametime has not run yet, the backup file is whatever the   *)
(* installation holds.                                                      *)

InitProg ==
    /\ now = 0
    /\ SERVER_STARTTIME = 0
    /\ SERVER_RUNTIME = 0
    /\ run_time = None
    /\ up_time = None
    /\ logfile \in FileInputs
    /\ phase = "none"
    /\ due = FALSE
    /\ store = "ok"
    /\ raised = FALSE

InitHist ==
    /\ stage = 0
    /\ saves = 0
    /\ rtSaved = None
    /\ base = 0
    /\ nTicks = 0
    /\ regular = FALSE

InitFmt ==
    /\ fmtSeconds = 0
    /\ fmtDivisors = <<>>
    /\ fmtResult = <<>>

InitCv ==
    /\ cvFactor = 2
    /\ cvArgs = [i \in 1..7 |-> 0]
    /\ cvGame = None
    /\ cvReal = None

Init == InitProg /\ InitHist /\ InitFmt /\ InitCv

\* history of an operation that ends every scenario the history follows
Forget ==
    /\ stage' = 0
    /\ rtSaved' = None
    /\ base' = 0
    /\ nTicks' = 0
    /\ regular' = FALSE

---------------------------------------------------------------------------
(* Operations *)

\* init_gametime -> create_script -> at_script_creation (lines 52-72)
AtScriptCreation ==
    /\ phase = "none"
    /\ store = "ok"
    /\ run_time' = CreationRunTime(logfile)
    /\ up_time' = 0
    /\ phase' = "created"
    /\ raised' = FALSE
    /\ Forget
    /\ UNCHANGED <<now, SERVER_STARTTIME, SERVER_RUNTIME, logfile, due, store,
                   saves, fmtVars, cvVars>>

\* at_start called by the script machinery: after creation (game_time.start())
\* and once in every new process (lines 93-112).  attributes.get is outside
\* the try block: when the store refuses reads the exception escapes and
\* SERVER_RUNTIME keeps its value.
AtStart ==
    /\ phase \in {"created", "loaded"}
    /\ IF store = "readfail"
       THEN /\ raised' = TRUE
            /\ UNCHANGED <<SERVER_RUNTIME, phase>>
            /\ Forget
       ELSE /\ raised' = FALSE
            /\ SERVER_RUNTIME' = StartRuntime(run_time, logfile)
            /\ phase' = "running"
            /\ stage' = IF stage = 2 THEN 3 ELSE 0
            /\ rtSaved' = IF stage = 2 THEN rtSaved ELSE None
            /\ regular' = (now = SERVER_STARTTIME)
            /\ base' = IF regular' THEN SERVER_RUNTIME' ELSE 0
            /\ nTicks' = 0
    /\ UNCHANGED <<now, SERVER_STARTTIME, run_time, up_time, logfile, due,
                   store, saves, fmtVars, cvVars>>

\* the wall clock moves; a step of one interval fires the script's timer
Advance(d) ==
    /\ Advances < MaxAdvances
    /\ now' = now + d
    /\ due' = (due \/ (d = Sec(Interval) /\ phase \in {"loaded", "running"}))
    /\ stage' = 0
    /\ rtSaved' = None
    /\ regular' = (regular /\ d = Sec(Interval) /\ ~due)
    /\ base' = IF regular' THEN base ELSE 0
    /\ nTicks' = IF regular' THEN nTicks ELSE 0
    /\ UNCHANGED <<SERVER_STARTTIME, SERVER_RUNTIME, run_time, up_time, logfile,
                   phase, store, raised, saves, fmtVars, cvVars>>

\* the scheduler calls at_repeat (lines 74-90)
AtRepeat ==
    /\ phase \in {"loaded", "running"}
    /\ due
    /\ LET res == RepeatResult(SERVER_RUNTIME, run_time, up_time, logfile,
                               now, SERVER_STARTTIME, store)
       IN  /\ run_time' = res.run
           /\ up_time' = res.up
           /\ SERVER_RUNTIME' = res.sr
           /\ raised' = res.raised
    /\ due' = FALSE
    /\ stage' = 0
    /\ rtSaved' = None
    /\ regular' = regular
    /\ base' = IF regular' THEN base ELSE 0
    /\ nTicks' = IF regular' THEN nTicks + 1 ELSE 0
    /\ UNCHANGED <<now, SERVER_STARTTIME, logfile, phase, store, saves,
                   fmtVars, cvVars>>

\* save() (lines 114-132), called by the server of an installed game when it
\* shuts down or reloads: at_repeat on the script, its exception swallowed;
\* then the backup file
Save ==
    /\ phase \in {"loaded", "running"}
    /\ saves < MaxSaves
    /\ LET res == RepeatResult(SERVER_RUNTIME, run_time, up_time, logfile,
                               now, SERVER_STARTTIME, store)
           rt == IF res.sr = None THEN None
                 ELSE res.sr + (now - SERVER_STARTTIME)
       IN  /\ run_time' = res.run
           /\ up_time' = res.up
           /\ SERVER_RUNTIME' = res.sr
           /\ logfile' = SaveFile(logfile, rt)
           /\ rtSaved' = IF phase = "running" THEN rt ELSE None
    /\ raised' = FALSE
    /\ saves' = saves + 1
    /\ stage' = IF phase = "running" THEN 1 ELSE 0
    /\ regular' = FALSE
    /\ base' = 0
    /\ nTicks' = 0
    /\ UNCHANGED <<now, SERVER_STARTTIME, phase, due, store, fmtVars, cvVars>>

\* the process ends and a new one loads the module (lines 41-42); the
\* script, its attributes and the backup file persist.  Time spent down
\* shifts now and SERVER_STARTTIME alike and is left out.
Restart ==
    /\ phase \in {"loaded", "running"}
    /\ SERVER_STARTTIME' = now
    /\ SERVER_RUNTIME' = 0
    /\ phase' = "loaded"
    /\ due' = FALSE
    /\ raised' = FALSE
    /\ saves' = 0
    /\ stage' = IF stage = 1 THEN 2 ELSE 0
    /\ rtSaved' = IF stage = 1 THEN rtSaved ELSE None
    /\ regular' = FALSE
    /\ base' = 0
    /\ nTicks' = 0
    /\ UNCHANGED <<now, run_time, up_time, logfile, store, fmtVars, cvVars>>

Next ==
    \/ AtScriptCreation
    \/ AtStart
    \/ \E d \in AdvanceSteps : Advance(d)
    \/ AtRepeat
    \/ Save
    \/ Restart

Spec == Init /\ [][Next]_vars

---------------------------------------------------------------------------
(* The attribute store failing: attributes.add / attributes.get raise *)

StoreFail(kind) ==
    /\ phase \in {"loaded", "running"}
    /\ store = "ok"
    /\ store' = kind
    /\ UNCHANGED <<now, SERVER_STARTTIME, SERVER_RUNTIME, run_time, up_time,
                   logfile, phase, due, raised, histVars, fmtVars, cvVars>>

StoreRepair ==
    /\ store # "ok"
    /\ store' = "ok"
    /\ UNCHANGED <<now, SERVER_STARTTIME, SERVER_RUNTIME, run_time, up_time,
                   logfile, phase, due, raised, histVars, fmtVars, cvVars>>

NextFault ==
    \/ Next
    \/ \E kind \in {"writefail", "readfail"} : StoreFail(kind)
    \/ StoreRepair

SpecFault == Init /\ [][NextFault]_vars

---------------------------------------------------------------------------
(* Recovery alone: a new process has loaded the module, the script exists   *)
(* with any run_time attribute (or none) and any backup file, and at_start  *)
(* is called.                                                               *)

AttrInputs ==
    { None, 0, Sec(9) + Quarter, Sec(200), Sec(900), Sec(1000),
      Sec(1000) + Quarter, Sec(1000) + 2 * Quarter, Sec(2000) }

RecoverFiles ==
    FileInputs \cup { File(<<"2", "0", "0">>),
                      File(<<"5", "0", "0", ".", "0">>) }

InitRecover ==
    /\ now = 0
    /\ SERVER_STARTTIME = 0
    /\ SERVER_RUNTIME = 0
    /\ run_time \in AttrInputs
    /\ up_time = IF run_time = None THEN None ELSE 0
    /\ logfile \in RecoverFiles
    /\ phase = "loaded"
    /\ due = FALSE
    /\ store = "ok"
    /\ raised = FALSE
    /\ InitHist
    /\ InitFmt
    /\ InitCv

SpecRecover == InitRecover /\ [][AtStart]_vars

---------------------------------------------------------------------------
(* One process followed from its start: the module has been loaded          *)
(* (SERVER_RUNTIME = 0.0), the script exists with any run_time and any      *)
(* backup file, the script's timer elapses every 60 s and the scheduler     *)
(* calls at_repeat each time before the next interval has elapsed; at_start *)
(* is called at any moment, or never.                                       *)

\* backup files that record no value: missing, empty, a blank line.  A value
\* in the file can only raise what at_start recovers (line 108), so these
\* are the files with which SERVER_RUNTIME grows slowest.
LiveFiles == { NoFile, File(<<>>), File(<<"\n">>) }

InitLive ==
    /\ now = 0
    /\ SERVER_STARTTIME = 0
    /\ SERVER_RUNTIME = 0
    /\ run_time \in AttrInputs \ {None}
    /\ up_time = 0
    /\ logfile \in LiveFiles
    /\ phase = "loaded"
    /\ due = FALSE
    /\ store = "ok"
    /\ raised = FALSE
    /\ InitHist
    /\ InitFmt
    /\ InitCv

\* self.interval seconds pass and the timer of the script fires
IntervalElapses ==
    /\ phase \in {"loaded", "running"}
    /\ ~due
    /\ now < Sec(Interval) * MaxLiveTicks
    /\ now' = now + Sec(Interval)
    /\ due' = TRUE
    /\ stage' = 0
    /\ rtSaved' = None
    /\ regular' = regular
    /\ base' = IF regular' THEN base ELSE 0
    /\ nTicks' = IF regular' THEN nTicks ELSE 0
    /\ UNCHANGED <<SERVER_STARTTIME, SERVER_RUNTIME, run_time, up_time, logfile,
                   phase, store, raised, saves, fmtVars, cvVars>>

NextLive ==
    \/ AtStart
    \/ IntervalElapses
    \/ AtRepeat

SpecLive ==
    /\ InitLive
    /\ [][NextLive]_vars
    /\ WF_vars(IntervalElapses)
    /\ WF_vars(AtRepeat)

---------------------------------------------------------------------------
(* The formatter alone: _format is called on any of the inputs *)

FormatCall ==
    /\ \E seconds \in FormatSeconds, divisors \in FormatDivisors :
          /\ fmtSeconds' = seconds
          /\ fmtDivisors' = divisors
          /\ fmtResult' = Format(seconds, divisors)
    /\ UNCHANGED <<progVars, histVars, cvVars>>

SpecFormat == Init /\ [][FormatCall]_vars

---------------------------------------------------------------------------
(* The conversions alone, for any time factor and any arguments: a         *)
(* real-time interval is converted to game time and the result given back  *)
(* as the secs of gametime_to_realtime                                     *)

InitConvert ==
    /\ InitProg /\ logfile = NoFile
    /\ InitHist
    /\ InitFmt
    /\ cvFactor \in TimeFactors
    /\ cvArgs \in ConvertArgs
    /\ cvGame = None
    /\ cvReal = None

ConvertCall ==
    /\ cvGame' = realtime_to_gametime(cvFactor, cvArgs[1], cvArgs[2], cvArgs[3],
                                      cvArgs[4], cvArgs[5], cvArgs[6], cvArgs[7])
    /\ cvReal' = gametime_to_realtime(cvFactor, cvGame', 0, 0, 0, 0, 0, 0)
    /\ UNCHANGED <<progVars, histVars, fmtVars, cvFactor, cvArgs>>

SpecConvert == InitConvert /\ [][ConvertCall]_vars

---------------------------------------------------------------------------
(* Well-formedness of the model *)

\* every line of the backup file that parses is exact in the fixed-point
\* representation: no value read back from the file is rounded by the model
ExactFile ==
    \A i \in 1..Len(FileLines(logfile.data)) : Exact(FileLines(logfile.data)[i])

TypeOK ==
    /\ now \in Nat /\ SERVER_STARTTIME \in 0..now
    /\ SERVER_RUNTIME \in Nat \cup {None}
    /\ run_time \in Nat \cup {None} /\ up_time \in Nat \cup {None}
    /\ logfile.exists \in BOOLEAN
    /\ phase \in {"none", "created", "loaded", "running"}
    /\ due \in BOOLEAN /\ raised \in BOOLEAN
    /\ store \in {"ok", "writefail", "readfail"}
    /\ stage \in 0..3 /\ saves \in 0..MaxSaves
    /\ rtSaved \in Nat \cup {None}
    /\ base \in Nat \cup {None} /\ nTicks \in Nat /\ regular \in BOOLEAN

---------------------------------------------------------------------------
(* What the durable stores record *)

\* the value save() reads from the file: float() of its first line, None
\* when the file is missing or the line does not parse
FirstLineValue(f) == IF f.exists THEN Float(ReadLine(f.data)) ELSE None

\* the file records no value for save(): it is missing or its first line
\* is empty
FirstLineAbsent(f) == ~f.exists \/ Strip(ReadLine(f.data)) = <<>>

\* the largest of the values that are present, and 0
MaxPresent(a, b) ==
    LET present == ({a, b} \ {None}) \cup {0}
    IN  CHOOSE m \in present : \A x \in present : x <= m

RECURSIVE WeightedSum(_, _)
\* sum of each quotient times its divisor, plus the remainder
WeightedSum(result, divisors) ==
    IF divisors = <<>> THEN Head(result)
    ELSE Head(result) * Head(divisors)
         + WeightedSum(Tail(result), Tail(divisors))

\* seconds left for position i of the result: the whole seconds minus what
\* the quotients before i account for
Remaining(i) ==
    (fmtSeconds \div Sec(1))
    - WeightedSum(SubSeq(fmtResult, 1, i - 1) \o <<0>>,
                  SubSeq(fmtDivisors, 1, i - 1))

---------------------------------------------------------------------------
(* Claims *)

\* C1: from a recovery at uptime 0 with AccumulatedRuntime A0, after N >= 1
\* ticks, each preceded by one 60-second advance and nothing else in
\* between, runtime() is A0 + 60*N.
C1_TicksAddInterval ==
    (phase = "running" /\ regular /\ nTicks >= 1 /\ ~due)
        => runtime = base + Sec(Interval) * nTicks

\* C1 holds when the recovered value is at or above the re-check threshold
C1_AboveThreshold ==
    (phase = "running" /\ regular /\ nTicks >= 1 /\ ~due
        /\ base >= Sec(RecheckThreshold))
        => runtime = base + Sec(Interval) * nTicks

\* C2: at_start leaves SERVER_RUNTIME at max(A, B, 0), A the run_time
\* attribute and B the backup file's candidate, an absent one not counting.
C2_RecoveryTakesMax ==
    phase = "running"
        => SERVER_RUNTIME = MaxPresent(run_time, BackupCandidate(logfile))

\* C3: once recovery has completed, runtime() is at least the run_time held
\* in the attribute store and at least the value the backup file records.
C3_RuntimeAtLeastStores ==
    phase = "running"
        => /\ runtime >= run_time
           /\ runtime >= BackupCandidate(logfile)
           /\ runtime >= FirstLineValue(logfile)

\* C4: a save() that finds the file's value absent (file missing or first
\* line empty) or below the recomputed runtime leaves the file recording
\* that runtime.
C4_SaveWritesFile ==
    [][(Save /\ (\/ FirstLineAbsent(logfile)
                 \/ /\ FirstLineValue(logfile) # None
                    /\ FirstLineValue(logfile) < runtime'))
          => FirstLineValue(logfile') = runtime']_vars

C6_SaveNeverDecreases ==
    [][(Save /\ FirstLineValue(logfile) # None)
          => FirstLineValue(logfile') >= FirstLineValue(logfile)]_vars

\* C7: a second save() right after a save() of a running accumulator, the
\* clock not having moved, changes neither the file's value nor run_time,
\* up_time or SERVER_RUNTIME.
C7_SaveIdempotent ==
    [][(Save /\ stage = 1)
          => /\ FirstLineValue(logfile') = FirstLineValue(logfile)
             /\ run_time' = run_time
             /\ up_time' = up_time
             /\ SERVER_RUNTIME' = SERVER_RUNTIME]_vars

\* C8: after save(), restart and at_start with no clock advance, uptime()
\* is 0 and runtime() is what it was right after the save.
C8_RestartKeepsRuntime ==
    stage = 3 => (uptime = 0 /\ runtime = rtSaved)

\* C9: a tick during which the attribute store fails does not let the
\* failure escape the handler, and leaves SERVER_RUNTIME unchanged.
C9_TickSwallowsStoreFailure ==
    [][(AtRepeat /\ store # "ok")
          => (~raised' /\ SERVER_RUNTIME' = SERVER_RUNTIME)]_vars

\* C10: _format(S, *D) has len(D)+1 elements, each quotient is the integer
\* quotient of the seconds remaining by its divisor, the last element is the
\* final remainder, the weighted sum is floor(S), and
\* _format(3725, 3600, 60) = (1, 2, 5).
C10_FormatDecomposes ==
    fmtResult # <<>> =>
        /\ Len(fmtResult) = Len(fmtDivisors) + 1
        /\ \A i \in 1..Len(fmtDivisors) :
              fmtResult[i] = Remaining(i) \div fmtDivisors[i]
        /\ fmtResult[Len(fmtResult)] = Remaining(Len(fmtResult))
        /\ WeightedSum(fmtResult, fmtDivisors) = fmtSeconds \div Sec(1)
        /\ (fmtSeconds \div Sec(1) = 3725 /\ fmtDivisors = <<3600, 60>>)
              => fmtResult = <<1, 2, 5>>

\* _format was given a fractional count and several divisors
C10_Witness ==
    /\ fmtSeconds = Sec(3725) + 3 * Quarter
    /\ fmtDivisors = <<3600, 60>>
    /\ fmtResult = <<1, 2, 5>>

\* C11: for every positive time factor and non-negative unit counts, format
\* off, gametime_to_realtime(secs=realtime_to_gametime(...)) is the real
\* total secs + 60*mins + 3600*hrs + 86400*days + 604800*weeks
\* + 2628000*months + 31536000*yrs.
C11_ConversionRoundTrip ==
    cvGame # None =>
        cvReal = cvArgs[1] + 60 * cvArgs[2] + 3600 * cvArgs[3]
                 + 86400 * cvArgs[4] + 604800 * cvArgs[5]
                 + 2628000 * cvArgs[6] + 31536000 * cvArgs[7]

\* a month, a year and a second went through both conversions at time
\* factor 2.5
C11_Witness ==
    /\ cvArgs = <<Halves(1), 0, 0, 0, 0, Halves(1), Halves(1)>>
    /\ cvFactor = 5
    /\ cvGame = Halves(85410002) + 1
    /\ cvReal = Halves(34164001)

\* C12: a tick that fires in a new process before at_start has run
\* (SERVER_RUNTIME still 0, nothing written by this process), while the
\* attribute store holds the run_time V of a previous process, leaves
\* SERVER_RUNTIME at V or more, whatever the backup file holds.
C12_TickBeforeRecoveryRestores ==
    [][(AtRepeat /\ phase = "loaded" /\ SERVER_RUNTIME = 0 /\ saves = 0
           /\ store = "ok" /\ run_time # None)
          => SERVER_RUNTIME' >= run_time]_vars

\* C13: the run_time held in the attribute store never decreases, over
\* every sequence of clock advances, ticks, saves, restarts and recoveries.
C13_RunTimeMonotone ==
    [][run_time' >= run_time]_vars

\* C14: at_script_creation sets run_time to the value of the last line of
\* the backup file that starts with a digit, when there is one, it parses
\* and is not zero, and to 0.0 otherwise, and lets no error escape; the
\* at_start that follows leaves SERVER_RUNTIME at that value.
C14_CreationLoadsFile ==
    [][/\ AtScriptCreation =>
            LET lines == IF logfile.exists
                         THEN SelectSeq(FileLines(logfile.data),
                                        LAMBDA l : IsDigit(l[1]))
                         ELSE <<>>
                v == IF lines = <<>> THEN None ELSE Float(lines[Len(lines)])
            IN  /\ run_time' = IF v # None /\ v # 0 THEN v ELSE 0
                /\ ~raised'
       /\ (AtStart /\ phase = "created") => SERVER_RUNTIME' = run_time]_vars

\* the game was created with the backup file "500.0" and then started
C14_Witness ==
    /\ logfile = File(<<"5", "0", "0", ".", "0">>)
    /\ phase = "running" /\ now = 0
    /\ run_time = Sec(500) /\ SERVER_RUNTIME = Sec(500)

\* C15: after a save() that writes the runtime V to the backup file, the
\* value the next at_start reads from the file is V, whatever the file held
\* before.
C15_SavedValueReadBack ==
    [][(Save /\ logfile' # logfile)
          => BackupCandidate(logfile') = runtime']_vars

\* C16: no operation but the start of a process changes SERVER_STARTTIME
\* (creation, at_start, at_repeat, save and the passing of time leave it
\* alone), a new process starts at uptime 0, and uptime() is
\* now - SERVER_STARTTIME whatever up_time the attribute store holds.
C16_StartTimeFrame ==
    [][/\ (\/ AtScriptCreation \/ AtStart \/ AtRepeat \/ Save
           \/ \E d \in AdvanceSteps : Advance(d))
          => SERVER_STARTTIME' = SERVER_STARTTIME
       /\ Restart => uptime' = 0
       /\ uptime' = now' - SERVER_STARTTIME']_vars

\* a second process has recovered and run for a quarter second while the
\* attribute store still holds the 60 s up_time of the first
C16_Witness ==
    /\ phase = "running"
    /\ SERVER_STARTTIME = Sec(Interval)
    /\ up_time = Sec(Interval)
    /\ uptime = Quarter

\* C17: a tick that finds SERVER_RUNTIME at or above the 1000 s threshold
\* leaves SERVER_RUNTIME, SERVER_STARTTIME and the backup file unchanged and
\* sets run_time to SERVER_RUNTIME + (now - SERVER_STARTTIME) and up_time to
\* now - SERVER_STARTTIME.
C17_TickAboveThresholdFrame ==
    [][(AtRepeat /\ SERVER_RUNTIME >= Sec(RecheckThreshold))
          => /\ SERVER_RUNTIME' = SERVER_RUNTIME
             /\ SERVER_STARTTIME' = SERVER_STARTTIME
             /\ logfile' = logfile
             /\ run_time' = SERVER_RUNTIME + (now - SERVER_STARTTIME)
             /\ up_time' = now - SERVER_STARTTIME]_vars

\* a tick has run 60 s after a recovery of 1000.25 s
C17_Witness ==
    /\ phase = "running" /\ regular /\ nTicks = 1 /\ ~due
    /\ SERVER_RUNTIME = Sec(RecheckThreshold) + Quarter
    /\ run_time = SERVER_RUNTIME + Sec(Interval)
    /\ up_time = Sec(Interval)

====
